---- MODULE Spec2Model ----
(***************************************************************************)
(* Model of fourmat/lint.py: the helpers get_project_paths,                *)
(* get_dirty_filenames, copy_configuration, the three tool runners isort,  *)
(* black and flake8, and the two click commands check and fix.            *)
(*                                                                         *)
(* Python strings are modelled as sequences of one-character strings, so   *)
(* that str.split, fnmatch.fnmatch and Path.suffix are computed character  *)
(* by character as the library computes them.                              *)
(*                                                                         *)
(* The external programs (isort, black, flake8, git) and the filesystem    *)
(* are the environment: a subprocess.run(..., check=True) returns          *)
(* (exit 0), raises CalledProcessError carrying the non-zero return code,  *)
(* is cut short by KeyboardInterrupt, or raises FileNotFoundError,          *)
(* PermissionError or another OSError when the program cannot be started.  *)
(***************************************************************************)
EXTENDS Integers, Sequences, FiniteSets, TLC

\* ---------------------------------------------------------------- bounds
MaxCfgLen == 3
MaxFiles == 1
MaxReturnCode == 2
MaxDiffLen == 2

\* ------------------------------------------------------ string constants
\* The characters str.split() separates at: tab, newline, vertical tab, form
\* feed, carriage return, the separators 0x1c to 0x1f, space, and of the
\* whitespace beyond ASCII the three a string of this module can be written
\* with (U+0085, U+00A0, U+1680).
Whitespace ==
    {"\t", "\n", "", "\f", "\r", "", "", "", "", " ", "", " ", " "}

CONFIG_FILE == <<".", "f", "o", "u", "r", "m", "a", "t">>

SnapDir == <<"s", "n", "a", "p", "s", "h", "o", "t", "s">>
SnapPrefix == <<"s", "n", "a", "p", "_">>
DotPy == <<".", "p", "y">>

SNAPSHOT_GLOB == <<"*", "/">> \o SnapDir \o <<"/">> \o SnapPrefix \o <<"*">> \o DotPy

SNAPSHOT_REGEX ==
    <<".", "*", "\\", "/">> \o SnapDir \o <<"\\", "/">> \o SnapPrefix
        \o <<".", "*", "\\", ".", "p", "y">>

CONFIGURATION_FILES == <<".flake8", ".isort.cfg", "pyproject.toml">>

ProgIsort == <<"i", "s", "o", "r", "t">>
ProgBlack == <<"b", "l", "a", "c", "k">>
ProgFlake8 == <<"f", "l", "a", "k", "e", "8">>

ArgSep == <<"-", "-">>
ArgCheck == <<"-", "-", "c", "h", "e", "c", "k">>
ArgDiff == <<"-", "-", "d", "i", "f", "f">>
ArgApply == <<"-", "-", "a", "p", "p", "l", "y">>
ArgProject == <<"-", "-", "p", "r", "o", "j", "e", "c", "t">>
ArgSkipGlob == <<"-", "-", "s", "k", "i", "p", "-", "g", "l", "o", "b">>
ArgAtomic == <<"-", "-", "a", "t", "o", "m", "i", "c">>
ArgQuiet == <<"-", "-", "q", "u", "i", "e", "t">>
ArgRecursive == <<"-", "-", "r", "e", "c", "u", "r", "s", "i", "v", "e">>
ArgExclude == <<"-", "-", "e", "x", "c", "l", "u", "d", "e">>

\* ------------------------------------------------------- library helpers

\* str.split(): the maximal runs of non-whitespace characters, in order.
RECURSIVE SplitFrom(_, _, _)
SplitFrom(text, i, cur) ==
    IF i > Len(text)
    THEN IF cur = <<>> THEN <<>> ELSE <<cur>>
    ELSE IF text[i] \in Whitespace
         THEN (IF cur = <<>> THEN <<>> ELSE <<cur>>) \o SplitFrom(text, i + 1, <<>>)
         ELSE SplitFrom(text, i + 1, Append(cur, text[i]))

Split(text) == SplitFrom(text, 1, <<>>)

\* fnmatch.fnmatch(s, pat) on POSIX for patterns made of literals and "*":
\* "*" matches any run of characters, "/" included.
RECURSIVE GlobFrom(_, _, _, _)
GlobFrom(s, i, pat, j) ==
    IF j > Len(pat) THEN i > Len(s)
    ELSE IF pat[j] = "*"
         THEN \E k \in i..(Len(s) + 1) : GlobFrom(s, k, pat, j + 1)
         ELSE /\ i <= Len(s)
              /\ s[i] = pat[j]
              /\ GlobFrom(s, i + 1, pat, j + 1)

fnmatch(s, pat) == GlobFrom(s, 1, pat, 1)

\* Index of the last occurrence of character c in s, 0 when there is none.
RECURSIVE RFind(_, _, _)
RFind(s, c, i) == IF i = 0 THEN 0 ELSE IF s[i] = c THEN i ELSE RFind(s, c, i - 1)

\* The pieces of a path between its "/" characters.
RECURSIVE ComponentsFrom(_, _, _)
ComponentsFrom(path, i, cur) ==
    IF i > Len(path) THEN <<cur>>
    ELSE IF path[i] = "/"
         THEN <<cur>> \o ComponentsFrom(path, i + 1, <<>>)
         ELSE ComponentsFrom(path, i + 1, Append(cur, path[i]))

\* Path(filename).parts without the root: pathlib drops empty and "."
\* components, so a trailing "/" or "/." does not count.
IsPart(component) == component # <<>> /\ component # <<".">>
PathParts(filename) == SelectSeq(ComponentsFrom(filename, 1, <<>>), IsPart)

\* Path(filename).name: the final component, empty when there is none.
PathName(filename) ==
    LET parts == PathParts(filename)
    IN  IF parts = <<>> THEN <<>> ELSE parts[Len(parts)]

\* Path(filename).suffix: from the last dot of the name on, provided that
\* dot is neither the first nor the last character of the name.
PathSuffix(filename) ==
    LET name == PathName(filename)
        i == RFind(name, ".", Len(name))
    IN  IF 1 < i /\ i < Len(name) THEN SubSeq(name, i, Len(name)) ELSE <<>>

\* ------------------------------------------------------------- helpers

get_project_paths(text) == Split(text)

RECURSIVE FilterDirty(_)
FilterDirty(filenames) ==
    IF filenames = <<>> THEN <<>>
    ELSE LET filename == Head(filenames)
             keep == /\ PathSuffix(filename) = DotPy
                     /\ ~fnmatch(filename, SNAPSHOT_GLOB)
         IN  (IF keep THEN <<filename>> ELSE <<>>) \o FilterDirty(Tail(filenames))

get_dirty_filenames(stdout) == FilterDirty(Split(stdout))

ProgGit == <<"g", "i", "t">>
ArgDiffIndex == <<"d", "i", "f", "f", "-", "i", "n", "d", "e", "x">>
ArgNameOnly == <<"-", "-", "n", "a", "m", "e", "-", "o", "n", "l", "y">>
ArgDiffFilter == <<"-", "-", "d", "i", "f", "f", "-", "f", "i", "l", "t", "e", "r">>
ArgACM == <<"A", "C", "M">>
ArgCached == <<"-", "-", "c", "a", "c", "h", "e", "d">>
ArgHead == <<"H", "E", "A", "D">>

\* The command line get_dirty_filenames runs.
git_diff_index(paths, staged) ==
    <<ProgGit, ArgDiffIndex, ArgNameOnly, ArgDiffFilter, ArgACM>>
        \o (IF staged THEN <<ArgCached>> ELSE <<>>)
        \o <<ArgHead, <<"-", "-">>>> \o paths

\* git diff-index --name-only prints one filename per line.
RECURSIVE Stdout(_)
Stdout(names) ==
    IF names = <<>> THEN <<>> ELSE Head(names) \o <<"\n">> \o Stdout(Tail(names))

\* --------------------------------------------------------- tool runners

RECURSIVE ProjectArgs(_)
ProjectArgs(project_paths) ==
    IF project_paths = <<>> THEN <<>>
    ELSE <<ArgProject, Head(project_paths)>> \o ProjectArgs(Tail(project_paths))

\* Variant: the mode options of isort the wrong way round.
C5_ModeSwapped(chk) == IF chk THEN <<ArgApply>> ELSE <<ArgCheck, ArgDiff>>

IsortModeArgs(check) == IF check THEN <<ArgCheck, ArgDiff>> ELSE <<ArgApply>>

BlackModeArgs(check) == IF check THEN <<ArgCheck, ArgDiff>> ELSE <<>>

\* The command line built by isort(paths, project_paths=..., check=...).
isort(paths, project_paths, check) ==
    <<ProgIsort>> \o IsortModeArgs(check) \o ProjectArgs(project_paths)
        \o <<ArgSkipGlob, SNAPSHOT_GLOB, ArgAtomic, ArgQuiet, ArgRecursive, ArgSep>>
        \o paths

\* The command line built by black(paths, check=...).
black(paths, check) ==
    <<ProgBlack>> \o BlackModeArgs(check)
        \o <<ArgExclude, SNAPSHOT_REGEX, ArgQuiet, ArgSep>> \o paths

\* The command line built by flake8(paths), once its assertion has passed.
flake8(paths) == <<ProgFlake8, ArgSep>> \o paths

\* Variant: the runner without its assertion.
C7_NoAssertion(chk) == TRUE

\* assert check is True, "Flake8 has no fix mode"
flake8_assert(check) == check = TRUE

\* Default values of the keyword argument check of the three runners.
IsortDefaultCheck == FALSE
BlackDefaultCheck == FALSE
Flake8DefaultCheck == TRUE

\* subprocess.run(argv, check=True): exit 0, CalledProcessError with the
\* non-zero return code, KeyboardInterrupt while waiting for the child, or,
\* no child having started, FileNotFoundError (the program is not on PATH),
\* PermissionError (it is not executable) or a plain OSError (it is
\* executable but not a program the system can run).
\* The return code is the child's exit status, or minus the number of the
\* signal that killed it.
SignalReturnCodes == {-9}
ReturnCodes == (1..MaxReturnCode) \cup SignalReturnCodes

SubprocessOutcomes ==
    {[exc |-> "none", rc |-> 0], [exc |-> "KeyboardInterrupt", rc |-> 0],
     [exc |-> "FileNotFoundError", rc |-> 0], [exc |-> "PermissionError", rc |-> 0],
     [exc |-> "OSError", rc |-> 0]}
        \cup {[exc |-> "CalledProcessError", rc |-> r] : r \in ReturnCodes}

\* ------------------------------------------------------ asset installer

\* Contents of ASSETS_DIR / name, as abstract byte strings.
Template(name) ==
    CASE name = ".flake8" -> <<"F">>
      [] name = ".isort.cfg" -> <<"I">>
      [] name = "pyproject.toml" -> <<"P">>

Absent == [exists |-> FALSE, data |-> <<>>]
File(data) == [exists |-> TRUE, data |-> data]

\* Variant: every file is copied whether or not it exists.
C4_AlwaysCopy(ov, exists) == TRUE

\* if override is True or not Path(name).exists()
ShouldCopy(override, exists) == override = TRUE \/ ~exists

\* What a shutil.copy that does not return (OSError, or KeyboardInterrupt
\* inside it) leaves at the destination: the file as it was (the exception
\* came before the destination was opened), the destination created or
\* truncated with part of the template, or the whole template (the
\* exception came after the bytes, in copymode).
Prefixes(data) == {SubSeq(data, 1, n) : n \in 0..Len(data)}

FailedCopy(before, template) == {before} \cup {File(d) : d \in Prefixes(template)}

\* ------------------------------------------------------- command layer

\* Variant: the FILES arguments are ignored.
C9_AlwaysProject(fls, roots) == roots

\* files = files or project_paths
EffectiveFiles(files, project_paths) ==
    IF files # <<>> THEN files ELSE project_paths

\* record_failure(): the exceptions the context manager swallows.
record_failure_catches(e) == e = "CalledProcessError"

\* Variant: status takes the failing tool's return code.
C2_StatusIsReturnCode(st, rc) == IF rc # 0 THEN rc ELSE st

\* record_failure(): the status it leaves behind (status = 1 on a failure).
record_failure_status(status, rc) == IF rc # 0 THEN 1 ELSE status

Outcome(result, exit_code) == [result |-> result, exit_code |-> exit_code]

\* The except clauses of check.
check_except(e) ==
    IF e = "KeyboardInterrupt" THEN Outcome("return", 0) ELSE Outcome("uncaught", 0)

\* Variant: fix turns every exception into an exit code.
C10_CatchAll(e, rc) ==
    IF e = "KeyboardInterrupt" THEN Outcome("return", 0) ELSE Outcome("SystemExit", rc)

\* The except clauses of fix.
fix_except(e, rc) ==
    IF e = "CalledProcessError" THEN Outcome("SystemExit", rc)
    ELSE IF e = "KeyboardInterrupt" THEN Outcome("return", 0)
    ELSE Outcome("uncaught", 0)

\* if status: sys.exit(status)
check_exit(status) ==
    IF status # 0 THEN Outcome("SystemExit", status) ELSE Outcome("return", 0)

\* --------------------------------------------------------------- state

VARIABLES
    cmd,            \* entry point being run
    pc,             \* the step about to be executed, "done" at the end
    override,       \* --override-config / override
    files_arg,      \* the FILES arguments as given (paths for a direct runner call)
    check_arg,      \* check= of a direct call of the flake8 runner
    config,         \* the file CONFIG_FILE
    staged,         \* staged= of get_dirty_filenames
    printed,        \* the filenames git diff-index prints, one per line
    fs,             \* the three configuration files of the working directory
    fs0,            \* fs when the entry point was called
    ci,             \* loop index of copy_configuration
    project_paths,  \* local variable of check and fix
    files,          \* local variable of check and fix
    status,         \* local variable of check
    trace,          \* the steps started so far, with the command line spawned
    result,         \* how the entry point ended
    exit_code,      \* code handed to sys.exit, 0 when sys.exit was not called
    dirty,          \* return value of get_dirty_filenames
    interrupted     \* a KeyboardInterrupt was raised in the entry point

vars == <<cmd, pc, override, files_arg, check_arg, config, staged, printed, fs, fs0,
          ci, project_paths, files, status, trace, result, exit_code, dirty,
          interrupted>>

inputs == <<cmd, override, files_arg, check_arg, config, staged, printed, fs0>>

Entry(step, argv, e, rc) == [step |-> step, argv |-> argv, exc |-> e, rc |-> rc]

\* Exception e leaves the body of the entry point.
Handle(e, rc) ==
    CASE cmd = "check" -> check_except(e)
      [] cmd = "fix" -> fix_except(e, rc)
      [] OTHER -> Outcome("uncaught", 0)

End(o) ==
    /\ pc' = "done"
    /\ result' = o.result
    /\ exit_code' = o.exit_code

\* The entry point returns or exits on its own.
Return(o) == End(o) /\ UNCHANGED interrupted

\* Exception e is raised in the try block of the entry point.
Raise(e, rc) == End(Handle(e, rc)) /\ interrupted' = (e = "KeyboardInterrupt")

\* Exception e is raised outside the try block (before it, or in one of its
\* except clauses): no except clause applies.
Escape(e) == End(Outcome("uncaught", 0)) /\ interrupted' = (e = "KeyboardInterrupt")

\* ---------------------------------------------------------------- inputs

RECURSIVE SeqsUpTo(_, _)
SeqsUpTo(S, n) ==
    IF n = 0 THEN {<<>>}
    ELSE LET shorter == SeqsUpTo(S, n - 1)
         IN  shorter \cup {Append(s, x) : s \in {t \in shorter : Len(t) = n - 1}, x \in S}

\* Config file texts: every short text over two letters and the space, and
\* two roots separated by each of the whitespace characters.
CfgAlphabet == {"a", "b", " "}
ConfigTexts ==
    SeqsUpTo(CfgAlphabet, MaxCfgLen) \cup {<<"a", w, "b">> : w \in Whitespace}
Configs == {Absent} \cup {File(t) : t \in ConfigTexts}

FileArgs == {<<"x">>}
FilesArgs == SeqsUpTo(FileArgs, MaxFiles)

InitCommon ==
    /\ fs = fs0
    /\ ci = 1
    /\ project_paths = <<>>
    /\ files = files_arg
    /\ status = 0
    /\ trace = <<>>
    /\ result = "running"
    /\ exit_code = 0
    /\ dirty = <<>>
    /\ interrupted = FALSE

ConfigNames == {CONFIGURATION_FILES[i] : i \in 1..Len(CONFIGURATION_FILES)}
NoConfiguration == [name \in ConfigNames |-> Absent]

\* Filenames git may print: sources, one with a space, a non-source, a dot file, snapshot
\* files at several depths and near misses of the snapshot pattern.
DiffNames ==
    { <<"a">> \o DotPy,
      <<"a", ".", "t">>,
      <<"a", " ", "b">> \o DotPy,
      DotPy,
      <<"d", "/">> \o SnapDir \o <<"/">> \o SnapPrefix \o <<"x">> \o DotPy,
      SnapDir \o <<"/">> \o SnapPrefix \o <<"x">> \o DotPy,
      <<"d", "/">> \o SnapDir \o <<"/">> \o SnapPrefix \o <<"x", "/", "y">> \o DotPy,
      <<"d", "/", "x">> \o SnapDir \o <<"/">> \o SnapPrefix \o <<"x">> \o DotPy,
      <<"d", "/">> \o SnapDir \o <<"/", "x">> \o DotPy }

\* A call of check or fix from the command line, or of the flake8 runner.
Init ==
    /\ cmd \in {"check", "fix", "flake8"}
    /\ override \in BOOLEAN
    /\ files_arg \in FilesArgs
    /\ check_arg \in (IF cmd = "flake8" THEN BOOLEAN ELSE {TRUE})
    /\ config \in (IF cmd = "flake8" THEN {Absent} ELSE Configs)
    /\ staged = FALSE
    /\ printed = <<>>
    /\ fs0 \in (IF cmd = "flake8" THEN {NoConfiguration}
                ELSE {[name \in ConfigNames |-> f] : f \in {Absent, File(<<"u">>)}})
    /\ pc = (IF cmd = "flake8" THEN "flake8" ELSE "entry")
    /\ InitCommon

\* A call of copy_configuration(override) in any working directory.
InitCopy ==
    /\ cmd = "copy_configuration"
    /\ override \in BOOLEAN
    /\ files_arg = <<>>
    /\ check_arg = TRUE
    /\ config = Absent
    /\ staged = FALSE
    /\ printed = <<>>
    /\ fs0 \in [ConfigNames -> {Absent, File(<<>>), File(<<"u">>), File(<<"F">>)}]
    /\ pc = "copy_configuration"
    /\ InitCommon

\* A call of get_dirty_filenames(paths, staged=...) on any output of git.
InitDirty ==
    /\ cmd = "get_dirty_filenames"
    /\ override = FALSE
    /\ files_arg \in FilesArgs
    /\ check_arg = TRUE
    /\ config = Absent
    /\ staged \in BOOLEAN
    /\ printed \in SeqsUpTo(DiffNames, MaxDiffLen)
    /\ fs0 = NoConfiguration
    /\ pc = "git"
    /\ InitCommon

\* --------------------------------------------------------------- actions

\* check or fix is entered: the try block begins, unless an interrupt arrives
\* first.
Enter ==
    /\ pc = "entry"
    /\ \/ pc' = "get_project_paths" /\ UNCHANGED <<result, exit_code, interrupted>>
       \/ Escape("KeyboardInterrupt")
    /\ UNCHANGED <<inputs, fs, ci, project_paths, files, status, trace, dirty>>

\* project_paths = get_project_paths(); in check, files = files or project_paths
ResolvePaths ==
    /\ pc = "get_project_paths"
    /\ \E intr \in BOOLEAN :
         LET e == IF intr THEN "KeyboardInterrupt"
                  ELSE IF ~config.exists THEN "FileNotFoundError" ELSE "none"
         IN  /\ trace' = Append(trace, Entry("get_project_paths", <<>>, e, 0))
             /\ IF e = "none"
                THEN /\ project_paths' = get_project_paths(config.data)
                     /\ files' = IF cmd = "check"
                                 THEN EffectiveFiles(files, project_paths')
                                 ELSE files
                     /\ pc' = "copy_configuration"
                     /\ UNCHANGED <<result, exit_code, interrupted>>
                ELSE /\ Raise(e, 0)
                     /\ UNCHANGED <<project_paths, files>>
    /\ UNCHANGED <<inputs, fs, ci, status, dirty>>

\* One iteration of the loop of copy_configuration; after the last one the
\* caller goes on (in fix, with files = files or project_paths).
CopyConfiguration ==
    /\ pc = "copy_configuration"
    /\ LET name == CONFIGURATION_FILES[ci]
           copies == ShouldCopy(override, fs[name].exists)
           last == ci = Len(CONFIGURATION_FILES)
       IN  \E e \in {"none", "KeyboardInterrupt"} \cup (IF copies THEN {"OSError"} ELSE {}) :
             IF e = "none"
             THEN /\ fs' = IF copies THEN [fs EXCEPT ![name] = File(Template(name))] ELSE fs
                  /\ ci' = ci + 1
                  /\ IF ~last
                     THEN UNCHANGED <<pc, trace, files, result, exit_code, interrupted>>
                     ELSE /\ trace' = Append(trace, Entry("copy_configuration", <<>>, e, 0))
                          /\ IF cmd = "copy_configuration"
                             THEN Return(Outcome("return", 0)) /\ UNCHANGED files
                             ELSE /\ pc' = "isort"
                                  /\ files' = IF cmd = "fix"
                                              THEN EffectiveFiles(files, project_paths)
                                              ELSE files
                                  /\ UNCHANGED <<result, exit_code, interrupted>>
             ELSE /\ trace' = Append(trace, Entry("copy_configuration", <<>>, e, 0))
                  /\ Raise(e, 0)
                  /\ IF copies
                     THEN \E left \in FailedCopy(fs[name], Template(name)) :
                            fs' = [fs EXCEPT ![name] = left]
                     ELSE UNCHANGED fs
                  /\ UNCHANGED <<ci, files>>
    /\ UNCHANGED <<inputs, project_paths, status, dirty>>

\* A runner called inside "with record_failure():" in check. An interrupt
\* that arrives in the except clause of record_failure, before or after
\* status = 1, leaves the with block for the except clauses of check.
CheckRun(step, asserted, argv, next) ==
    /\ cmd = "check"
    /\ pc = step
    /\ IF ~asserted
       THEN /\ trace' = Append(trace, Entry(step, <<>>, "AssertionError", 0))
            /\ Raise("AssertionError", 0)
            /\ UNCHANGED status
       ELSE \E o \in SubprocessOutcomes :
              /\ trace' = Append(trace, Entry(step, argv, o.exc, o.rc))
              /\ IF o.exc = "none"
                 THEN /\ pc' = next
                      /\ UNCHANGED <<status, result, exit_code, interrupted>>
                 ELSE IF record_failure_catches(o.exc)
                 THEN \/ /\ pc' = next
                         /\ status' = record_failure_status(status, o.rc)
                         /\ UNCHANGED <<result, exit_code, interrupted>>
                      \/ /\ Raise("KeyboardInterrupt", 0)
                         /\ status' \in {status, record_failure_status(status, o.rc)}
                 ELSE /\ Raise(o.exc, o.rc)
                      /\ UNCHANGED status
    /\ UNCHANGED <<inputs, fs, ci, project_paths, files, dirty>>

CheckIsort == CheckRun("isort", TRUE, isort(files, project_paths, TRUE), "black")
CheckBlack == CheckRun("black", TRUE, black(files, TRUE), "flake8")
CheckFlake8 == CheckRun("flake8", flake8_assert(TRUE), flake8(files), "exit")

\* if status: sys.exit(status), still inside the try block: an interrupt
\* that arrives here is swallowed like any other.
CheckExit ==
    /\ cmd = "check"
    /\ pc = "exit"
    /\ \/ Return(check_exit(status))
       \/ Raise("KeyboardInterrupt", 0)
    /\ UNCHANGED <<inputs, fs, ci, project_paths, files, status, trace, dirty>>

\* A runner called in the try block of fix; its CalledProcessError enters
\* the clause "except CalledProcessError as e".
FixRun(step, asserted, argv, next) ==
    /\ cmd = "fix"
    /\ pc = step
    /\ IF ~asserted
       THEN /\ trace' = Append(trace, Entry(step, <<>>, "AssertionError", 0))
            /\ Raise("AssertionError", 0)
       ELSE \E o \in SubprocessOutcomes :
              /\ trace' = Append(trace, Entry(step, argv, o.exc, o.rc))
              /\ IF o.exc = "none"
                 THEN pc' = next /\ UNCHANGED <<result, exit_code, interrupted>>
                 ELSE IF o.exc = "CalledProcessError"
                 THEN pc' = "except" /\ UNCHANGED <<result, exit_code, interrupted>>
                 ELSE Raise(o.exc, o.rc)
    /\ UNCHANGED <<inputs, fs, ci, project_paths, files, status, dirty>>

FixIsort == FixRun("isort", TRUE, isort(files, project_paths, IsortDefaultCheck), "black")
FixBlack == FixRun("black", TRUE, black(files, BlackDefaultCheck), "flake8")
FixFlake8 == FixRun("flake8", flake8_assert(Flake8DefaultCheck), flake8(files), "exit")

\* except CalledProcessError as e: sys.exit(e.returncode). An interrupt
\* that arrives inside this clause is not caught by the clause after it.
FixExcept ==
    /\ cmd = "fix"
    /\ pc = "except"
    /\ \/ Return(fix_except("CalledProcessError", trace[Len(trace)].rc))
       \/ Escape("KeyboardInterrupt")
    /\ UNCHANGED <<inputs, fs, ci, project_paths, files, status, trace, dirty>>

\* The try block of fix ends; an interrupt that arrives here is swallowed.
FixReturn ==
    /\ cmd = "fix"
    /\ pc = "exit"
    /\ \/ Return(Outcome("return", 0))
       \/ Raise("KeyboardInterrupt", 0)
    /\ UNCHANGED <<inputs, fs, ci, project_paths, files, status, trace, dirty>>

\* flake8(paths, check=check_arg) called on its own.
CallFlake8 ==
    /\ cmd = "flake8"
    /\ pc = "flake8"
    /\ IF ~flake8_assert(check_arg)
       THEN /\ trace' = Append(trace, Entry("flake8", <<>>, "AssertionError", 0))
            /\ Raise("AssertionError", 0)
       ELSE \E o \in SubprocessOutcomes :
              /\ trace' = Append(trace, Entry("flake8", flake8(files), o.exc, o.rc))
              /\ IF o.exc = "none"
                 THEN Return(Outcome("return", 0))
                 ELSE Raise(o.exc, o.rc)
    /\ UNCHANGED <<inputs, fs, ci, project_paths, files, status, dirty>>

\* get_dirty_filenames: run git diff-index, split its output, filter it.
GetDirtyFilenames ==
    /\ cmd = "get_dirty_filenames"
    /\ pc = "git"
    /\ \E o \in SubprocessOutcomes :
         /\ trace' = Append(trace, Entry("git", git_diff_index(files_arg, staged), o.exc, o.rc))
         /\ IF o.exc = "none"
            THEN /\ dirty' = get_dirty_filenames(Stdout(printed))
                 /\ Return(Outcome("return", 0))
            ELSE /\ Raise(o.exc, o.rc)
                 /\ UNCHANGED dirty
    /\ UNCHANGED <<inputs, fs, ci, project_paths, files, status>>

Next ==
    \/ Enter
    \/ ResolvePaths
    \/ CopyConfiguration
    \/ CheckIsort
    \/ CheckBlack
    \/ CheckFlake8
    \/ CheckExit
    \/ FixIsort
    \/ FixBlack
    \/ FixFlake8
    \/ FixExcept
    \/ FixReturn
    \/ CallFlake8

Spec == Init /\ [][Next]_vars

NextCopy == CopyConfiguration

SpecCopy == InitCopy /\ [][NextCopy]_vars

NextDirty == GetDirtyFilenames

SpecDirty == InitDirty /\ [][NextDirty]_vars

\* ------------------------------------------------- reading the trace

Last(seq) == seq[Len(seq)]

IsTool(e) == e.step \in {"isort", "black", "flake8"}
ToolEntries == SelectSeq(trace, IsTool)
StepNames(seq) == [i \in 1..Len(seq) |-> seq[i].step]

\* The runner got as far as subprocess.run with this command line.
Invoked(e) == e.argv # <<>>
Interrupted == interrupted

\* The exit status the operating system reports for the run: sys.exit(n)
\* ends the process with n modulo 256, a return with 0.
ProcessExitCode == IF result = "SystemExit" THEN exit_code % 256 ELSE exit_code

Command == cmd \in {"check", "fix"}

\* The step of that name ran to completion.
Completed(step) ==
    \E i \in 1..Len(trace) : trace[i].step = step /\ trace[i].exc = "none"

\* A command line read as the tool reads it: options up to the first "--",
\* positional paths after it.
SepIndex(argv) ==
    CHOOSE i \in 1..Len(argv) : argv[i] = ArgSep /\ \A j \in 1..(i - 1) : argv[j] # ArgSep
OptionsOf(argv) == SubSeq(argv, 2, SepIndex(argv) - 1)
PathsOf(argv) == SubSeq(argv, SepIndex(argv) + 1, Len(argv))
Has(opts, flag) == \E i \in 1..Len(opts) : opts[i] = flag

\* The values of the --project options, in order.
RECURSIVE ProjectsOf(_)
ProjectsOf(opts) ==
    IF Len(opts) < 2 THEN <<>>
    ELSE IF Head(opts) = ArgProject
         THEN <<opts[2]>> \o ProjectsOf(Tail(Tail(opts)))
         ELSE ProjectsOf(Tail(opts))

RECURSIVE CountOf(_, _)
CountOf(opts, flag) ==
    IF opts = <<>> THEN 0
    ELSE (IF Head(opts) = flag THEN 1 ELSE 0) + CountOf(Tail(opts), flag)

\* ---------------------------------------------------------------- claims

AllThreeInOrder ==
    /\ StepNames(ToolEntries) = <<"isort", "black", "flake8">>
    /\ \A i \in 1..3 : Invoked(ToolEntries[i])
    /\ ToolEntries[1].argv[1] = ProgIsort
    /\ ToolEntries[2].argv[1] = ProgBlack
    /\ ToolEntries[3].argv[1] = ProgFlake8

\* C1, as stated: a run of check in which path resolution and asset
\* installation succeeded and no interrupt occurred has invoked isort,
\* black and flake8, each exactly once and in that order.
C1_CheckRunsAllTools ==
    ( /\ cmd = "check"
      /\ pc = "done"
      /\ Completed("get_project_paths")
      /\ Completed("copy_configuration")
      /\ ~Interrupted )
    => AllThreeInOrder

\* C2: an uninterrupted run of check in which the three tools ran and
\* exited ends with 0 exactly when all three exited 0, and with exactly 1 as
\* soon as one exited non-zero, whatever the codes and however many failed.
C2_CheckExitStatus ==
    ( /\ cmd = "check"
      /\ pc = "done"
      /\ ~Interrupted
      /\ Len(ToolEntries) = 3
      /\ \A i \in 1..3 : ToolEntries[i].exc \in {"none", "CalledProcessError"} )
    => LET allzero == \A i \in 1..3 : ToolEntries[i].rc = 0
       IN  /\ allzero <=> (result = "return" /\ ProcessExitCode = 0)
           /\ ~allzero => (result = "SystemExit" /\ ProcessExitCode = 1)

C2_Witness ==
    /\ cmd = "check"
    /\ pc = "done"
    /\ Len(ToolEntries) = 3
    /\ ~Interrupted
    /\ ToolEntries[1].rc = 0
    /\ ToolEntries[2].rc = 2
    /\ ToolEntries[3].rc \in SignalReturnCodes
    /\ ProcessExitCode = 1

\* C3: fix invokes the tools in the order isort, black, flake8 and stops
\* at the first one that exits non-zero: nothing runs after it, the process
\* exit code is that tool's return code, and it is 0 when all three exit 0.
C3_FixStopsAtFirstFailure ==
    cmd = "fix" =>
      LET n == Len(ToolEntries)
      IN  /\ StepNames(ToolEntries) = SubSeq(<<"isort", "black", "flake8">>, 1, n)
          /\ \A i \in 1..(n - 1) : ToolEntries[i].exc = "none"
          /\ (n > 0 /\ ToolEntries[n].exc = "CalledProcessError")
               => pc \in {"except", "done"}
          /\ (pc = "done" /\ n > 0 /\ ToolEntries[n].exc = "CalledProcessError")
               => /\ result = "SystemExit"
                  /\ ProcessExitCode = ToolEntries[n].rc
          /\ (pc = "done" /\ n = 3 /\ ToolEntries[3].exc = "none")
               => (result = "return" /\ ProcessExitCode = 0)

\* C4: when copy_configuration completes, each of the three configuration
\* files is, without override, unchanged if it existed and equal to the
\* bundled template if it was missing; with override it equals the template.
C4_CopyConfiguration ==
    (cmd = "copy_configuration" /\ pc = "done" /\ result = "return")
    => \A name \in ConfigNames :
         IF override
         THEN fs[name] = File(Template(name))
         ELSE IF fs0[name].exists
              THEN fs[name] = fs0[name]
              ELSE fs[name] = File(Template(name))

C4_Witness ==
    /\ cmd = "copy_configuration"
    /\ pc = "done"
    /\ result = "return"
    /\ ~override
    /\ fs0[".flake8"] = File(<<"u">>)
    /\ fs[".flake8"] = File(<<"u">>)
    /\ ~fs0[".isort.cfg"].exists
    /\ fs["pyproject.toml"] = File(<<>>)

\* C5: every command line check spawns is in check mode: isort gets --check
\* and --diff and never --apply, black gets --check and --diff, and flake8
\* runs with its check-only assertion passed.
C5_CheckNeverMutates ==
    cmd = "check" =>
      \A i \in 1..Len(ToolEntries) :
        LET e == ToolEntries[i]
            opts == OptionsOf(e.argv)
        IN  /\ e.exc # "AssertionError"
            /\ Invoked(e)
            /\ e.step \in {"isort", "black"}
                 => (Has(opts, ArgCheck) /\ Has(opts, ArgDiff))
            /\ ~Has(opts, ArgApply)
            /\ e.step = "flake8" => e.argv = <<ProgFlake8, ArgSep>> \o PathsOf(e.argv)

C5_Witness ==
    /\ cmd = "check"
    /\ pc = "done"
    /\ Len(ToolEntries) = 3
    /\ Has(OptionsOf(ToolEntries[1].argv), ArgDiff)
    /\ Has(OptionsOf(ToolEntries[2].argv), ArgCheck)

\* A path containing a snapshots/snap_*.py-shaped segment: a directory named
\* snapshots, at the top of the path or below any directory, followed by a
\* name that starts with snap_, the path ending in .py.
IsSnapshotFile(path) ==
    LET segment == SnapDir \o <<"/">> \o SnapPrefix \o <<"*">> \o DotPy
    IN  fnmatch(path, segment) \/ fnmatch(path, <<"*", "/">> \o segment)

IsSource(path) == PathSuffix(path) = DotPy /\ ~IsSnapshotFile(path)

\* C6: get_dirty_filenames returns exactly the filenames git printed, in
\* order, that have suffix .py and are not snapshot files, a snapshot file
\* being any path that contains a snapshots/snap_*.py-shaped segment.
C6_DirtyAreNonSnapshotSources ==
    (cmd = "get_dirty_filenames" /\ pc = "done" /\ result = "return")
    => dirty = SelectSeq(printed, IsSource)

\* C7: the flake8 runner called with check other than True fails on its
\* assertion before anything is spawned, and neither check nor fix ever
\* calls it that way: in both, flake8 runs check-only.
C7_Flake8HasNoFixMode ==
    /\ (cmd = "flake8" /\ check_arg # TRUE /\ pc = "done")
         => /\ trace = <<Entry("flake8", <<>>, "AssertionError", 0)>>
            /\ result = "uncaught"
    /\ Command =>
         \A i \in 1..Len(trace) :
           /\ trace[i].exc # "AssertionError"
           /\ trace[i].step = "flake8"
                => trace[i].argv = <<ProgFlake8, ArgSep>> \o files

C7_Witness ==
    /\ cmd = "flake8"
    /\ check_arg = FALSE
    /\ pc = "done"
    /\ files_arg # <<>>
    /\ Last(trace).exc = "AssertionError"

\* C8: a user interrupt raised once the steps of check or fix have begun
\* (in path resolution, in asset installation, or in a tool run and what the
\* command does with its outcome) ends the command at once and silently:
\* the step it arrived in is the last one, and the command returns without
\* an exit status, in check even after an earlier tool was recorded as
\* failed.
C8_InterruptIsSilent ==
    Command =>
      /\ \A i \in 1..Len(trace) :
           trace[i].exc = "KeyboardInterrupt"
             => /\ i = Len(trace)
                /\ Interrupted
      /\ (Interrupted /\ trace # <<>>)
           => /\ pc = "done"
              /\ result = "return"
              /\ exit_code = 0

\* C9: in check and in fix every tool is given the effective file set as
\* its paths, the FILES arguments when there are any and else the project
\* path list read from the config file, and isort is always given the whole
\* project path list, one --project option per root, in config-file order.
C9_EffectiveFiles ==
    Command =>
      \A i \in 1..Len(ToolEntries) :
        LET e == ToolEntries[i]
            roots == Split(config.data)
        IN  Invoked(e) =>
              /\ PathsOf(e.argv) = (IF files_arg # <<>> THEN files_arg ELSE roots)
              /\ e.step = "isort"
                   => /\ ProjectsOf(OptionsOf(e.argv)) = roots
                      /\ CountOf(OptionsOf(e.argv), ArgProject) = Len(roots)

C9_Witness ==
    /\ cmd = "fix"
    /\ files_arg = <<<<"x">>>>
    /\ Len(ToolEntries) = 2
    /\ PathsOf(ToolEntries[2].argv) = <<<<"x">>>>
    /\ ProjectsOf(OptionsOf(ToolEntries[1].argv)) = <<<<"b">>, <<"a">>>>

\* C10: in check and fix no tool is invoked before path resolution and then
\* asset installation have both succeeded, nothing is copied when the
\* config file is missing, and a failure of either step is neither recorded
\* as exit status 1 nor turned into an exit code: it propagates uncaught.
C10_StepsInOrder ==
    Command =>
      /\ ToolEntries # <<>>
           => /\ Len(trace) >= 2
              /\ trace[1] = Entry("get_project_paths", <<>>, "none", 0)
              /\ trace[2] = Entry("copy_configuration", <<>>, "none", 0)
              /\ \A i \in 3..Len(trace) : IsTool(trace[i])
      /\ ~config.exists => (fs = fs0 /\ ~Completed("copy_configuration"))
      /\ fs # fs0 => Completed("get_project_paths")
      /\ \A i \in 1..Len(trace) :
           ( /\ trace[i].step \in {"get_project_paths", "copy_configuration"}
             /\ trace[i].exc \in {"FileNotFoundError", "OSError"} )
             => /\ i = Len(trace)
                /\ pc = "done"
                /\ result = "uncaught"
                /\ status = 0
                /\ exit_code = 0

C10_Witness ==
    /\ cmd = "fix"
    /\ pc = "done"
    /\ trace # <<>>
    /\ Last(trace) = Entry("copy_configuration", <<>>, "OSError", 0)
    /\ fs # fs0
    /\ result = "uncaught"

====
